---------------------------- MODULE Spec2Model ----------------------------
(***************************************************************************)
(* Model of the deterministic validation engine of llm-extraction-engine:  *)
(* config.py (policy objects), issues.py (Issue, is_valid, sort_issues),   *)
(* validation.py (field validators, validate_rental) and the loop of       *)
(* pipeline.py (run_pipeline).                                             *)
(*                                                                         *)
(* Representation.                                                         *)
(*   Optional[T]   None is <<>>, a present value v is <<v>>.               *)
(*   confidence    a float in [0.0, 1.0], counted in hundredths (0..100);  *)
(*                 ConfidenceThresholds are counted in the same unit, so   *)
(*                 0.3 is 30 and 0.6 is 60.  The order of the floats is    *)
(*                 the order of the integers.                              *)
(*   bathrooms     a float (1, 1.5, 2, ...), counted in half bathrooms;    *)
(*                 BathroomsRange is counted in the same unit, so the      *)
(*                 default [1, 10] is [2, 20] and 1.5 is 3.                *)
(*   Issue.message the f-string, kept as the tuple of the text it starts   *)
(*                 with and the values it embeds.                          *)
(***************************************************************************)
EXTENDS Integers, Sequences, FiniteSets, TLC

VARIABLES
    pc,        \* the control position: "call", then the function that returned
    args,      \* the arguments of the call, by parameter name
    ret,       \* what the call returned
    schema,    \* the caller's rental record (run_pipeline's local `schema`)
    policies,  \* the policy objects the caller holds
    idx,       \* run_pipeline: the index of the current text
    issues     \* run_pipeline: the sorted issues of the current text

vars == <<pc, args, ret, schema, policies, idx, issues>>

----------------------------------------------------------------------------
(* Optional values and small helpers *)

None == <<>>

Some(v) == <<v>>

Max(a, b) == IF a >= b THEN a ELSE b

Min(a, b) == IF a <= b THEN a ELSE b

Reverse(s) == [i \in 1..Len(s) |-> s[Len(s) + 1 - i]]

----------------------------------------------------------------------------
(* schemas.py *)

Extracted(value, confidence) ==
    [value |-> value, evidence |-> None, confidence |-> confidence]

RentalSchema(price_monthly, bedrooms, bathrooms, address, utilities_text) ==
    [price_monthly |-> price_monthly, bedrooms |-> bedrooms,
     bathrooms |-> bathrooms, address |-> address,
     utilities_text |-> utilities_text]

----------------------------------------------------------------------------
(* config.py *)

ConfidenceThresholds == [warn |-> 60, error |-> 30]

PricePolicy ==
    [min_price |-> 300, base_max |-> 1700, per_bed_max |-> 1000,
     cap_max |-> 9000, unknown_max |-> 9000]

BedroomsRange == [min |-> 0, max |-> 10]

BathroomsRange == [min |-> 2, max |-> 20]

(* max_for_bedrooms without the clamp of beds to >= 0. *)
max_for_bedrooms_unclamped(self, beds) ==
    IF beds = None
    THEN self.unknown_max
    ELSE Min(self.cap_max, self.base_max + self.per_bed_max * beds[1])

max_for_bedrooms(self, beds) ==
    IF beds = None
    THEN self.unknown_max
    ELSE LET b == Max(0, beds[1])
         IN  Min(self.cap_max, self.base_max + self.per_bed_max * b)

----------------------------------------------------------------------------
(* issues.py *)

Issue(field, severity, message) ==
    [field |-> field, severity |-> severity, message |-> message]

SEVERITY_RANK(severity) ==
    CASE severity = "error" -> 2
      [] severity = "warning" -> 1
      [] OTHER -> 0

(* is_valid that lets any ranked issue, a warning too, invalidate. *)
is_valid_any_ranked(iss) ==
    \A i \in 1..Len(iss) : SEVERITY_RANK(iss[i].severity) = 0

is_valid(iss) == \A i \in 1..Len(iss) : iss[i].severity # "error"

(* sorted(): a stable sort, ascending by key.  Each element is inserted     *)
(* after the elements already placed whose key is not greater.              *)
RECURSIVE InsertByKey(_, _)
InsertByKey(x, s) ==
    IF s = <<>> THEN <<x>>
    ELSE IF SEVERITY_RANK(s[Len(s)].severity) <= SEVERITY_RANK(x.severity)
         THEN Append(s, x)
         ELSE Append(InsertByKey(x, SubSeq(s, 1, Len(s) - 1)), s[Len(s)])

RECURSIVE StableSortAscending(_)
StableSortAscending(s) ==
    IF s = <<>> THEN <<>>
    ELSE InsertByKey(s[Len(s)], StableSortAscending(SubSeq(s, 1, Len(s) - 1)))

(* sort_issues as sorted(...)[::-1]: ascending, then reversed. *)
sort_issues_reversed(iss) == Reverse(StableSortAscending(iss))

(* sorted(..., reverse=True) keeps equal keys in their input order: the     *)
(* list is reversed, sorted ascending and stable, and reversed again.       *)
sort_issues(iss) == Reverse(StableSortAscending(Reverse(iss)))

----------------------------------------------------------------------------
(* validation.py *)

(* validate_confidence without the early return for a missing value. *)
validate_confidence_no_skip(extracted_field, field_name, conf) ==
    LET c == extracted_field.confidence
    IN  IF c < conf.error
        THEN << Issue(field_name, "error",
                      <<"Error-level confidence", c, conf.error>>) >>
        ELSE IF c < conf.warn
        THEN << Issue(field_name, "warning",
                      <<"Low confidence", c, conf.warn>>) >>
        ELSE <<>>

(* validate_confidence with `if` in place of `elif`: both checks may fire. *)
validate_confidence_two_ifs(extracted_field, field_name, conf) ==
    IF extracted_field.value = None
    THEN <<>>
    ELSE LET c == extracted_field.confidence
         IN  (IF c < conf.error
              THEN << Issue(field_name, "error",
                            <<"Error-level confidence", c, conf.error>>) >>
              ELSE <<>>)
             \o (IF c < conf.warn
                 THEN << Issue(field_name, "warning",
                               <<"Low confidence", c, conf.warn>>) >>
                 ELSE <<>>)

(* validate_confidence with both thresholds compared by <=. *)
validate_confidence_inclusive(extracted_field, field_name, conf) ==
    IF extracted_field.value = None
    THEN <<>>
    ELSE LET c == extracted_field.confidence
         IN  IF c <= conf.error
             THEN << Issue(field_name, "error",
                           <<"Error-level confidence", c, conf.error>>) >>
             ELSE IF c <= conf.warn
             THEN << Issue(field_name, "warning",
                           <<"Low confidence", c, conf.warn>>) >>
             ELSE <<>>

validate_confidence(extracted_field, field_name, conf) ==
    IF extracted_field.value = None
    THEN <<>>
    ELSE LET c == extracted_field.confidence
         IN  IF c < conf.error
             THEN << Issue(field_name, "error",
                           <<"Error-level confidence", c, conf.error>>) >>
             ELSE IF c < conf.warn
             THEN << Issue(field_name, "warning",
                           <<"Low confidence", c, conf.warn>>) >>
             ELSE <<>>

(* validate_range with exclusive bounds. *)
validate_range_exclusive(extracted_field, field_name, min_v, max_v) ==
    IF extracted_field.value = None
    THEN <<>>
    ELSE LET v == extracted_field.value[1]
         IN  IF v <= min_v \/ v >= max_v
             THEN << Issue(field_name, "error",
                           <<"is outside expected range", v, min_v, max_v>>) >>
             ELSE <<>>

validate_range(extracted_field, field_name, min_v, max_v) ==
    IF extracted_field.value = None
    THEN <<>>
    ELSE LET v == extracted_field.value[1]
         IN  IF v < min_v \/ v > max_v
             THEN << Issue(field_name, "error",
                           <<"is outside expected range", v, min_v, max_v>>) >>
             ELSE <<>>

validate_price(price_field, bedrooms_value, conf, policy) ==
    IF price_field.value = None
    THEN <<>>
    ELSE LET max_p == max_for_bedrooms(policy, bedrooms_value)
         IN  validate_range(price_field, "price_monthly", policy.min_price, max_p)
             \o validate_confidence(price_field, "price_monthly", conf)

validate_bedrooms(beds_field, conf, beds_range) ==
    validate_range(beds_field, "bedrooms", beds_range.min, beds_range.max)
    \o validate_confidence(beds_field, "bedrooms", conf)

(* validate_bathrooms without the range check. *)
validate_bathrooms_confidence_only(baths_field, conf, baths_range) ==
    validate_confidence(baths_field, "bathrooms", conf)

validate_bathrooms(baths_field, conf, baths_range) ==
    validate_range(baths_field, "bathrooms", baths_range.min, baths_range.max)
    \o validate_confidence(baths_field, "bathrooms", conf)

validate_string_field(string_field, field_name, conf) ==
    validate_confidence(string_field, field_name, conf)

(* validate_rental that stops at the first field with an 'error' issue. *)
validate_rental_stop_at_error(sch, conf, beds_range, baths_range) ==
    LET p == validate_price(sch.price_monthly, sch.bedrooms.value, conf, PricePolicy)
        b == validate_bedrooms(sch.bedrooms, conf, beds_range)
        h == validate_bathrooms(sch.bathrooms, conf, baths_range)
        a == validate_string_field(sch.address, "address", conf)
        u == validate_string_field(sch.utilities_text, "utilities_text", conf)
    IN  IF ~ is_valid(p) THEN p
        ELSE IF ~ is_valid(b) THEN p \o b
        ELSE IF ~ is_valid(h) THEN p \o b \o h
        ELSE IF ~ is_valid(a) THEN p \o b \o h \o a
        ELSE p \o b \o h \o a \o u

(* validate_rental has no price-policy parameter: validate_price is called  *)
(* with three arguments and so with its default policy, PricePolicy().      *)
validate_rental(sch, conf, beds_range, baths_range) ==
    validate_price(sch.price_monthly, sch.bedrooms.value, conf, PricePolicy)
    \o validate_bedrooms(sch.bedrooms, conf, beds_range)
    \o validate_bathrooms(sch.bathrooms, conf, baths_range)
    \o validate_string_field(sch.address, "address", conf)
    \o validate_string_field(sch.utilities_text, "utilities_text", conf)

----------------------------------------------------------------------------
(* Input domains *)

FieldNames ==
    {"price_monthly", "bedrooms", "bathrooms", "address", "utilities_text"}

NumericFieldNames == {"price_monthly", "bedrooms", "bathrooms"}

Confidences == 0..100

ThresholdInputs ==
    {[warn |-> w, error |-> e] : w, e \in {0, 30, 45, 60, 100}}

(* The variables a specification does not use keep these values. *)
Idle == schema = None /\ policies = None /\ idx = 0 /\ issues = <<>>

----------------------------------------------------------------------------
(* SpecConfidence: validate_confidence on one field *)

InitConfidence ==
    /\ pc = "call"
    /\ args \in [extracted_field :
                     {Extracted(v, c) : v \in {None, Some(1)}, c \in Confidences},
                 field_name : FieldNames,
                 conf : ThresholdInputs]
    /\ ret = <<>>
    /\ Idle

ValidateConfidence ==
    /\ pc = "call"
    /\ pc' = "validate_confidence"
    /\ ret' = validate_confidence(args.extracted_field, args.field_name, args.conf)
    /\ UNCHANGED <<args, schema, policies, idx, issues>>

NextConfidence == ValidateConfidence

SpecConfidence == InitConfidence /\ [][NextConfidence]_vars

----------------------------------------------------------------------------
(* SpecRange: validate_range on one numeric field *)

MaxBound == 5

RangeValues == -1..(MaxBound + 1)

InitRange ==
    /\ pc = "call"
    /\ args \in [extracted_field :
                     {Extracted(v, c) :
                          v \in {None} \cup {Some(n) : n \in RangeValues},
                          c \in {0, 100}},
                 field_name : NumericFieldNames,
                 min_v : 0..MaxBound,
                 max_v : 0..MaxBound]
    /\ ret = <<>>
    /\ Idle

ValidateRange ==
    /\ pc = "call"
    /\ pc' = "validate_range"
    /\ ret' = validate_range(args.extracted_field, args.field_name,
                             args.min_v, args.max_v)
    /\ UNCHANGED <<args, schema, policies, idx, issues>>

NextRange == ValidateRange

SpecRange == InitRange /\ [][NextRange]_vars

----------------------------------------------------------------------------
(* SpecPrice: PricePolicy.max_for_bedrooms and validate_price *)

MaxBeds == 20

CustomPricePolicy ==
    [min_price |-> 500, base_max |-> 1000, per_bed_max |-> 500,
     cap_max |-> 4000, unknown_max |-> 5000]

PricePolicies == {PricePolicy, CustomPricePolicy}

PriceValues ==
    {299, 300, 499, 500, 1000, 1001, 1700, 1701, 2500, 3700, 3701,
     4000, 4001, 5000, 5001, 9000, 9001, 9999}

BedroomsValues == {None} \cup {Some(n) : n \in -2..MaxBeds}

InitPrice ==
    /\ pc = "call"
    /\ args \in [price_field :
                     {Extracted(v, c) :
                          v \in {None} \cup {Some(n) : n \in PriceValues},
                          c \in {0, 45, 90}},
                 bedrooms_value : BedroomsValues,
                 conf : {ConfidenceThresholds},
                 policy : PricePolicies]
    /\ ret = <<>>
    /\ Idle

MaxForBedrooms ==
    /\ pc = "call"
    /\ pc' = "max_for_bedrooms"
    /\ ret' = max_for_bedrooms(args.policy, args.bedrooms_value)
    /\ UNCHANGED <<args, schema, policies, idx, issues>>

ValidatePrice ==
    /\ pc = "call"
    /\ pc' = "validate_price"
    /\ ret' = validate_price(args.price_field, args.bedrooms_value,
                             args.conf, args.policy)
    /\ UNCHANGED <<args, schema, policies, idx, issues>>

NextPrice == MaxForBedrooms \/ ValidatePrice

SpecPrice == InitPrice /\ [][NextPrice]_vars

----------------------------------------------------------------------------
(* SpecIssues: is_valid and sort_issues on one list of issues *)

MaxIssues == 4

Severities == {"error", "warning", "info"}

Labels == <<"A", "B", "C", "D", "E", "F", "G", "H">>

(* The lists of at most MaxIssues issues; the i-th issue of a list carries  *)
(* the i-th label as its message, which tells apart issues of one severity. *)
IssueLists ==
    UNION {{[i \in 1..n |-> Issue("bedrooms", sev[i], Labels[i])] :
                sev \in [1..n -> Severities]} : n \in 0..MaxIssues}

InitIssues ==
    /\ pc = "call"
    /\ args \in [issues : IssueLists]
    /\ ret = <<>>
    /\ Idle

IsValid ==
    /\ pc = "call"
    /\ pc' = "is_valid"
    /\ ret' = is_valid(args.issues)
    /\ UNCHANGED <<args, schema, policies, idx, issues>>

SortIssues ==
    /\ pc = "call"
    /\ pc' = "sort_issues"
    /\ ret' = sort_issues(args.issues)
    /\ UNCHANGED <<args, schema, policies, idx, issues>>

NextIssues == IsValid \/ SortIssues

SpecIssues == InitIssues /\ [][NextIssues]_vars

----------------------------------------------------------------------------
(* SpecRental: a caller that holds a rental record and policy objects calls *)
(* validate_rental, or one of the field validators, on the record.          *)

CustomConfidenceThresholds == [warn |-> 95, error |-> 50]

InvertedConfidenceThresholds == [warn |-> 30, error |-> 60]

CustomBedroomsRange == [min |-> 1, max |-> 3]

CustomBathroomsRange == [min |-> 4, max |-> 6]

(* A field: absent with a confidence, or one of `values` with a confidence. *)
FieldInputs(values) ==
    {Extracted(None, c) : c \in {0, 90}}
    \cup {Extracted(Some(v), c) : v \in values, c \in {0, 45, 90}}

RentalSchemas ==
    {RentalSchema(p, b, h, a, u) :
         p \in FieldInputs({299, 2500, 9999}),
         b \in FieldInputs({0, 2, 11}),
         h \in FieldInputs({1, 3, 21}),
         a \in FieldInputs({"123 Main St"}),
         u \in FieldInputs({"heat included"})}

PolicyInputs ==
    {[conf |-> c, policy |-> r[1], beds_range |-> r[2], baths_range |-> r[3]] :
         c \in {ConfidenceThresholds, CustomConfidenceThresholds,
                InvertedConfidenceThresholds},
         r \in {<<PricePolicy, BedroomsRange, BathroomsRange>>,
                <<CustomPricePolicy, CustomBedroomsRange, CustomBathroomsRange>>}}

InitRental ==
    /\ pc = "call"
    /\ schema \in RentalSchemas
    /\ policies \in PolicyInputs
    /\ args = <<>>
    /\ ret = <<>>
    /\ idx = 0
    /\ issues = <<>>

(* The caller cannot hand policies.policy to validate_rental: the function  *)
(* has the parameters schema, conf, beds_range and baths_range only.        *)
CallValidateRental ==
    /\ pc = "call"
    /\ pc' = "validate_rental"
    /\ args' = [schema |-> schema, conf |-> policies.conf,
                beds_range |-> policies.beds_range,
                baths_range |-> policies.baths_range]
    /\ ret' = validate_rental(schema, policies.conf,
                              policies.beds_range, policies.baths_range)
    /\ UNCHANGED <<schema, policies, idx, issues>>

CallValidatePrice ==
    /\ pc = "call"
    /\ pc' = "validate_price"
    /\ args' = [price_field |-> schema.price_monthly,
                bedrooms_value |-> schema.bedrooms.value,
                conf |-> policies.conf, policy |-> policies.policy]
    /\ ret' = validate_price(schema.price_monthly, schema.bedrooms.value,
                             policies.conf, policies.policy)
    /\ UNCHANGED <<schema, policies, idx, issues>>

CallValidateBedrooms ==
    /\ pc = "call"
    /\ pc' = "validate_bedrooms"
    /\ args' = [beds_field |-> schema.bedrooms, conf |-> policies.conf,
                beds_range |-> policies.beds_range]
    /\ ret' = validate_bedrooms(schema.bedrooms, policies.conf,
                                policies.beds_range)
    /\ UNCHANGED <<schema, policies, idx, issues>>

CallValidateBathrooms ==
    /\ pc = "call"
    /\ pc' = "validate_bathrooms"
    /\ args' = [baths_field |-> schema.bathrooms, conf |-> policies.conf,
                baths_range |-> policies.baths_range]
    /\ ret' = validate_bathrooms(schema.bathrooms, policies.conf,
                                 policies.baths_range)
    /\ UNCHANGED <<schema, policies, idx, issues>>

CallValidateStringField ==
    /\ pc = "call"
    /\ pc' = "validate_string_field"
    /\ \E f \in {"address", "utilities_text"} :
          /\ args' = [string_field |-> schema[f], field_name |-> f,
                      conf |-> policies.conf]
          /\ ret' = validate_string_field(schema[f], f, policies.conf)
    /\ UNCHANGED <<schema, policies, idx, issues>>

CallValidateConfidence ==
    /\ pc = "call"
    /\ pc' = "validate_confidence"
    /\ \E f \in FieldNames :
          /\ args' = [extracted_field |-> schema[f], field_name |-> f,
                      conf |-> policies.conf]
          /\ ret' = validate_confidence(schema[f], f, policies.conf)
    /\ UNCHANGED <<schema, policies, idx, issues>>

CallValidateRange ==
    /\ pc = "call"
    /\ pc' = "validate_range"
    /\ \E f \in {"bedrooms", "bathrooms"} :
          LET r == IF f = "bedrooms" THEN policies.beds_range
                                     ELSE policies.baths_range
          IN  /\ args' = [extracted_field |-> schema[f], field_name |-> f,
                          min_v |-> r.min, max_v |-> r.max]
              /\ ret' = validate_range(schema[f], f, r.min, r.max)
    /\ UNCHANGED <<schema, policies, idx, issues>>

NextRental ==
    \/ CallValidateRental
    \/ CallValidatePrice
    \/ CallValidateBedrooms
    \/ CallValidateBathrooms
    \/ CallValidateStringField
    \/ CallValidateConfidence
    \/ CallValidateRange

SpecRental == InitRental /\ [][NextRental]_vars

----------------------------------------------------------------------------
(* Spec: run_pipeline over a batch of texts.  extract_one is the call to    *)
(* the language model: it may return any record.  Of an entry of `results`  *)
(* the model keeps id, text and valid; its "issues" and "extracted" are the *)
(* locals `issues` and `schema` at the time it is appended.  No later       *)
(* iteration reads an earlier entry or the earlier values of the locals     *)
(* (each iteration assigns schema and issues before it reads them), so the  *)
(* loop's back edge drops them.                                             *)

MaxTexts == 2

(* A field as the extraction returns it. *)
ExtractedInputs(values) ==
    {Extracted(None, c) : c \in {0, 100}}
    \cup {Extracted(Some(v), c) : v \in values, c \in {29, 30, 60}}

ExtractedSchemas ==
    {RentalSchema(p, b, h, a, u) :
         p \in ExtractedInputs({299, 300, 3700, 3701, 9001}),
         b \in ExtractedInputs({-1, 2, 11}),
         h \in ExtractedInputs({1, 2, 21}),
         a \in ExtractedInputs({"123 Main St"}),
         u \in ExtractedInputs({"heat included"})}

Init ==
    /\ pc = "loop"
    /\ args \in {[texts |-> [i \in 1..n |-> "listing"]] : n \in 0..MaxTexts}
    /\ ret = <<>>
    /\ schema = None
    /\ policies = None
    /\ idx = 0
    /\ issues = <<>>

ExtractOne ==
    /\ pc = "loop"
    /\ idx < Len(args.texts)
    /\ idx' = idx + 1
    /\ schema' \in ExtractedSchemas
    /\ pc' = "extracted"
    /\ UNCHANGED <<args, ret, policies, issues>>

Process ==
    /\ pc = "extracted"
    /\ issues' = sort_issues(validate_rental(schema, ConfidenceThresholds,
                                             BedroomsRange, BathroomsRange))
    /\ ret' = Append(ret, [id |-> idx, text |-> args.texts[idx],
                           valid |-> is_valid(issues')])
    /\ pc' = "appended"
    /\ UNCHANGED <<args, schema, policies, idx>>

NextText ==
    /\ pc = "appended"
    /\ pc' = "loop"
    /\ schema' = None
    /\ issues' = <<>>
    /\ UNCHANGED <<args, ret, policies, idx>>

Return ==
    /\ pc = "loop"
    /\ idx = Len(args.texts)
    /\ pc' = "return"
    /\ UNCHANGED <<args, ret, schema, policies, idx, issues>>

Next == ExtractOne \/ Process \/ NextText \/ Return

Spec == Init /\ [][Next]_vars

----------------------------------------------------------------------------
(* Claims about the single functions *)

OneIssue(out, field_name, severity) ==
    /\ Len(out) = 1
    /\ out[1].field = field_name
    /\ out[1].severity = severity

(* C1: for a field whose value is present and thresholds with error <= warn,  *)
(* validate_confidence returns no issue when confidence >= warn, exactly one  *)
(* 'error' issue when confidence < error and exactly one 'warning' issue when *)
(* error <= confidence < warn; the issue carries the field name passed in.    *)
C1_ConfidenceBands ==
    ( /\ pc = "validate_confidence"
      /\ args.extracted_field.value # None
      /\ args.conf.error <= args.conf.warn )
    => LET c == args.extracted_field.confidence
       IN  /\ c >= args.conf.warn => ret = <<>>
           /\ c < args.conf.error => OneIssue(ret, args.field_name, "error")
           /\ (args.conf.error <= c /\ c < args.conf.warn)
                  => OneIssue(ret, args.field_name, "warning")

C1_Witness ==
    /\ pc = "validate_confidence"
    /\ args.extracted_field = Extracted(Some(1), 30)
    /\ args.conf = ConfidenceThresholds
    /\ args.field_name = "address"
    /\ OneIssue(ret, "address", "warning")

(* C2: for a numeric field whose value is present, validate_range returns no  *)
(* issue when min_v <= value <= max_v (both bounds inclusive) and exactly one *)
(* 'error' issue naming the field when value < min_v or value > max_v.        *)
C2_RangeInclusive ==
    (pc = "validate_range" /\ args.extracted_field.value # None)
    => LET v == args.extracted_field.value[1]
       IN  /\ (args.min_v <= v /\ v <= args.max_v) => ret = <<>>
           /\ (v < args.min_v \/ v > args.max_v)
                  => OneIssue(ret, args.field_name, "error")

C2_Witness ==
    /\ pc = "validate_range"
    /\ args.min_v < args.max_v
    /\ args.extracted_field.value = Some(args.max_v)
    /\ ret = <<>>

(* The upper price bound the claim C3 states, case by case. *)
C3_UpperBound(policy, beds) ==
    IF beds = None THEN policy.unknown_max
    ELSE IF beds[1] <= 0
         THEN IF policy.base_max <= policy.cap_max
              THEN policy.base_max ELSE policy.cap_max
         ELSE IF policy.base_max + policy.per_bed_max * beds[1] <= policy.cap_max
              THEN policy.base_max + policy.per_bed_max * beds[1]
              ELSE policy.cap_max

(* C3: max_for_bedrooms(beds) is unknown_max when beds is absent and          *)
(* otherwise min(cap_max, base_max + per_bed_max * max(0, beds)), so that a   *)
(* negative count gives the bound of 0 bedrooms; the default policy gives     *)
(* 9000 for absent, 3700 for 2 and 9000 for 20.  validate_price checks the    *)
(* price against [min_price, that bound].                                     *)
C3_PriceBound ==
    /\ pc = "max_for_bedrooms" =>
          /\ ret = C3_UpperBound(args.policy, args.bedrooms_value)
          /\ args.policy = PricePolicy =>
                /\ args.bedrooms_value = None => ret = 9000
                /\ args.bedrooms_value = Some(2) => ret = 3700
                /\ args.bedrooms_value = Some(20) => ret = 9000
    /\ (pc = "validate_price" /\ args.price_field.value # None) =>
          LET v == args.price_field.value[1]
              lo == args.policy.min_price
              hi == C3_UpperBound(args.policy, args.bedrooms_value)
              ranged == {i \in 1..Len(ret) :
                            ret[i].message[1] = "is outside expected range"}
          IN  /\ (ranged # {}) <=> (v < lo \/ v > hi)
              /\ \A i \in ranged :
                    /\ ret[i].field = "price_monthly"
                    /\ ret[i].severity = "error"
                    /\ ret[i].message = <<"is outside expected range", v, lo, hi>>

C3_Witness ==
    /\ pc = "validate_price"
    /\ args.policy = PricePolicy
    /\ args.bedrooms_value = Some(2)
    /\ args.price_field = Extracted(Some(3701), 90)
    /\ ret = << Issue("price_monthly", "error",
                      <<"is outside expected range", 3701, 300, 3700>>) >>

(* C5: is_valid is true if and only if no issue of the list has severity      *)
(* 'error'; the empty list and a list of warnings only are valid.             *)
C5_IsValid ==
    pc = "is_valid"
    => (ret <=> ~ \E i \in 1..Len(args.issues) : args.issues[i].severity = "error")

C5_Witness ==
    /\ pc = "is_valid"
    /\ Len(args.issues) = 2
    /\ \A i \in 1..2 : args.issues[i].severity = "warning"
    /\ ret = TRUE

(* C6: sort_issues returns a permutation of its input ordered by severity     *)
(* rank descending (error 2, warning 1, any other severity 0), issues of      *)
(* equal rank keeping their input order.                                      *)
C6_StableSort ==
    pc = "sort_issues"
    => LET in == args.issues
           n == Len(in)
           rank(i) == SEVERITY_RANK(i.severity)
       IN  /\ Len(ret) = n
           /\ \E p \in Permutations(1..n) :
                 /\ \A i \in 1..n : ret[i] = in[p[i]]
                 /\ \A i, j \in 1..n :
                       (i < j /\ rank(ret[i]) = rank(ret[j])) => p[i] < p[j]
           /\ \A i, j \in 1..n : i < j => rank(ret[i]) >= rank(ret[j])
           /\ \A i \in 1..n : rank(ret[i]) = 2 <=> ret[i].severity = "error"
           /\ \A i \in 1..n : rank(ret[i]) = 1 <=> ret[i].severity = "warning"

C6_Witness ==
    /\ pc = "sort_issues"
    /\ Len(args.issues) = 4
    /\ [i \in 1..4 |-> args.issues[i].severity]
           = <<"warning", "error", "warning", "error">>
    /\ [i \in 1..4 |-> ret[i].message] = <<"B", "D", "A", "C">>

----------------------------------------------------------------------------
(* Claims about validate_rental and the field validators on a record *)

IsRangeIssue(i) == i.message[1] = "is outside expected range"

IsConfidenceIssue(i) ==
    i.message[1] \in {"Error-level confidence", "Low confidence"}

Count(out, field_name, Test(_)) ==
    Cardinality({i \in 1..Len(out) : out[i].field = field_name /\ Test(out[i])})

(* The statement of C4.  With price_confident the record with price = 9999  *)
(* is taken with a confidence that is below neither threshold; without it,  *)
(* with any confidence.                                                      *)
C4_AbsentFieldNoIssue(price_confident) ==
    /\ (pc = "validate_confidence" /\ args.extracted_field.value = None)
          => ret = <<>>
    /\ (pc = "validate_range" /\ args.extracted_field.value = None)
          => ret = <<>>
    /\ (pc = "validate_price" /\ args.price_field.value = None) => ret = <<>>
    /\ (pc = "validate_bedrooms" /\ args.beds_field.value = None) => ret = <<>>
    /\ (pc = "validate_bathrooms" /\ args.baths_field.value = None)
          => ret = <<>>
    /\ (pc = "validate_string_field" /\ args.string_field.value = None)
          => ret = <<>>
    /\ pc = "validate_rental" =>
          LET s == args.schema
              others_absent ==
                  \A f \in FieldNames \ {"price_monthly"} : s[f].value = None
          IN  /\ \A i \in 1..Len(ret) : s[ret[i].field].value # None
              /\ (s.price_monthly.value = None /\ others_absent) => ret = <<>>
              /\ ( /\ s.price_monthly.value = Some(9999)
                   /\ others_absent
                   /\ price_confident =>
                         /\ s.price_monthly.confidence >= args.conf.warn
                         /\ s.price_monthly.confidence >= args.conf.error )
                 => /\ OneIssue(ret, "price_monthly", "error")
                    /\ ret[1].message
                          = <<"is outside expected range", 9999, 300, 9000>>

(* C4, as it holds of the code: the validators return no issue for an absent *)
(* value, whatever its confidence; validate_rental returns no issue for a    *)
(* record with all five values absent and, for price = 9999 with every other *)
(* value absent, only the price range error provided the price's confidence  *)
(* is below neither threshold.                                               *)
C4_Amended == C4_AbsentFieldNoIssue(TRUE)

(* C4 as stated: the record with price = 9999 and every other value absent   *)
(* yields only the price range error, whatever the price's confidence.       *)
C4_Original == C4_AbsentFieldNoIssue(FALSE)

C4_Witness ==
    /\ pc = "validate_rental"
    /\ args.schema.price_monthly = Extracted(Some(9999), 90)
    /\ args.schema.bedrooms = Extracted(None, 90)
    /\ args.schema.bathrooms = Extracted(None, 0)
    /\ args.schema.address = Extracted(None, 0)
    /\ args.schema.utilities_text = Extracted(None, 0)
    /\ args.conf = ConfidenceThresholds
    /\ ret = << Issue("price_monthly", "error",
                      <<"is outside expected range", 9999, 300, 9000>>) >>

(* What the claims C7 and C8 state validate_rental returns when the price is *)
(* judged against price_policy: per field, the range issue and then the      *)
(* confidence issue, the fields in the fixed order.                          *)
RangeThenConfidence(field, field_name, min_v, max_v, conf) ==
    validate_range(field, field_name, min_v, max_v)
    \o validate_confidence(field, field_name, conf)

PerFieldIssues(s, conf, price_policy, beds_range, baths_range) ==
    [price_monthly |->
         RangeThenConfidence(s.price_monthly, "price_monthly",
                             price_policy.min_price,
                             C3_UpperBound(price_policy, s.bedrooms.value), conf),
     bedrooms |->
         RangeThenConfidence(s.bedrooms, "bedrooms",
                             beds_range.min, beds_range.max, conf),
     bathrooms |->
         RangeThenConfidence(s.bathrooms, "bathrooms",
                             baths_range.min, baths_range.max, conf),
     address |-> validate_confidence(s.address, "address", conf),
     utilities_text |->
         validate_confidence(s.utilities_text, "utilities_text", conf)]

InFieldOrder(e) ==
    e.price_monthly \o e.bedrooms \o e.bathrooms \o e.address \o e.utilities_text

(* C7: validate_rental evaluates all five fields and returns the per-field   *)
(* issue lists concatenated in the order price_monthly, bedrooms, bathrooms, *)
(* address, utilities_text, range issue before confidence issue; the price   *)
(* bound is derived from bedrooms.value; every issue names one of the five   *)
(* fields.                                                                   *)
C7_FixedOrderConcatenation ==
    pc = "validate_rental" =>
       /\ ret = InFieldOrder(PerFieldIssues(args.schema, args.conf, PricePolicy,
                                            args.beds_range, args.baths_range))
       /\ \A i \in 1..Len(ret) : ret[i].field \in FieldNames

C7_Witness ==
    /\ pc = "validate_rental"
    /\ args.conf = ConfidenceThresholds
    /\ args.schema.bedrooms.value = Some(0)
    /\ [i \in 1..Len(ret) |-> <<ret[i].field, ret[i].severity>>]
          = << <<"price_monthly", "error">>, <<"price_monthly", "warning">>,
               <<"bedrooms", "error">>, <<"bathrooms", "error">>,
               <<"bathrooms", "warning">>, <<"address", "warning">>,
               <<"utilities_text", "error">> >>
    /\ ret[1].message = <<"is outside expected range", 2500, 300, 1700>>

(* C8: validate_rental judges each field against the policy objects the      *)
(* caller supplies, the price against the caller's PricePolicy.              *)
C8_CallerPolicyApplied ==
    pc = "validate_rental" =>
       ret = InFieldOrder(PerFieldIssues(schema, policies.conf, policies.policy,
                                         policies.beds_range,
                                         policies.baths_range))

(* C10: validate_rental returns at most 8 issues: at most one range and one  *)
(* confidence issue for each numeric field, at most one confidence issue and *)
(* no range issue for each string field, and never both an 'error' and a     *)
(* 'warning' confidence issue for one field.                                 *)
C10_AtMostEightIssues ==
    pc = "validate_rental" =>
       /\ Len(ret) <= 8
       /\ \A i \in 1..Len(ret) : IsRangeIssue(ret[i]) \/ IsConfidenceIssue(ret[i])
       /\ \A f \in FieldNames :
             /\ Count(ret, f, IsConfidenceIssue) <= 1
             /\ Count(ret, f, IsRangeIssue)
                   <= (IF f \in NumericFieldNames THEN 1 ELSE 0)

C10_Witness ==
    /\ pc = "validate_rental"
    /\ args.conf = InvertedConfidenceThresholds
    /\ Len(ret) = 8
    /\ \A f \in FieldNames : Count(ret, f, IsConfidenceIssue) = 1
    /\ \A f \in NumericFieldNames : Count(ret, f, IsRangeIssue) = 1

----------------------------------------------------------------------------
(* Claim about run_pipeline *)

(* A present value outside [lo, hi]. *)
OutOfRange(field, lo, hi) ==
    field.value # None /\ (field.value[1] < lo \/ field.value[1] > hi)

(* C9: under the policy in force (the defaults, with error <= warn) the      *)
(* verdict run_pipeline records for a record is false if and only if a field *)
(* has a present value outside its policy range (price, bedrooms, bathrooms) *)
(* or a present value with confidence below the error threshold; confidence  *)
(* in [error, warn) gives a warning and leaves the record valid.             *)
C9_VerdictIffError ==
    pc = "appended" =>
       LET blocked ==
               \/ OutOfRange(schema.price_monthly, 300,
                             C3_UpperBound(PricePolicy, schema.bedrooms.value))
               \/ OutOfRange(schema.bedrooms, 0, 10)
               \/ OutOfRange(schema.bathrooms, 2, 20)
               \/ \E f \in FieldNames :
                     schema[f].value # None /\ schema[f].confidence < 30
       IN  /\ ret[idx].id = idx
           /\ ret[idx].valid <=> ~ blocked
           /\ \A f \in FieldNames :
                 ( /\ schema[f].value # None
                   /\ 30 <= schema[f].confidence
                   /\ schema[f].confidence < 60 )
                 => \E i \in 1..Len(issues) :
                       issues[i].field = f /\ issues[i].severity = "warning"

C9_Witness ==
    /\ pc = "appended"
    /\ idx = MaxTexts
    /\ ret[idx].valid = TRUE
    /\ Len(issues) = 5
    /\ \A i \in 1..5 : issues[i].severity = "warning"

=============================================================================
